---- MODULE Spec2Model ----
(***************************************************************************)
(* The vibex-node log shipper: the batching dispatcher VibexClient         *)
(* (src/client.js) and the winston transport VibexHandler (src/handler.js, *)
(* src/normalize.js), run on Node's single-threaded event loop.            *)
(*                                                                         *)
(* A step of the model is one run-to-completion turn of the event loop:    *)
(* a synchronous call from the application (sendLog, flush, a change of    *)
(* the configuration object), a timer or setImmediate callback, the        *)
(* arrival of an HTTP response, or the continuation of an await.           *)
(* Log entries are identified by the arrival index of their sendLog call.  *)
(***************************************************************************)
EXTENDS Integers, Sequences, FiniteSets, TLC

\* ---------------------------------------------------------------- constants
BATCH_SIZE == 50
MAX_QUEUE_SIZE == 1000

\* ------------------------------------------------------------------- bounds
\* sendLog invocations of the application (a burst counts once)
MaxCalls == 2
\* largest number of sendLog calls made in immediate succession
MaxBurst == 60
\* flush() invocations
MaxFlushCalls == 2
\* changes of the configuration object after construction
MaxConfigChanges == 1
\* log() calls winston makes on the handler
MaxLogs == 2

VARIABLES
    token,                \* config.token is set (truthy)
    sessionId,            \* config.sessionId is set (truthy)
    disabled,
    disabledPermanently,
    _logQueue,            \* sequence of entry ids, oldest first
    _batchTimeout,        \* handle of the timer the client remembers, 0 = null
    _processing,
    _shutdown,
    timers,               \* handles of the setTimeout timers that can still fire
    immediates,           \* number of pending setImmediate(_processBatch) callbacks
    inflight,             \* outstanding _sendBatch calls: [batch, stage]
    requests,             \* history: the logs arrays of the HTTP requests issued
    returns,              \* history: return value of the i-th sendLog call
    flushPc,              \* position of the flush() drain loop
    atFlush,              \* history: the queue when flush() first ran
    calls,                \* history: sendLog invocations (bursts) so far
    flushCalls,           \* history: flush() invocations so far
    configChanges,        \* history: configuration changes so far
    got401,               \* history: a response with status 401 was handled
    variant,              \* the VibexHandler in use: "json" (src/handler.js),
                          \* "hybrid" (src/normalize.js), "none" (client used directly)
    passthroughConsole,
    passthroughOnFailure,
    errorListener,        \* an 'error' listener is registered on the handler
    logCalls,             \* history: log() calls so far
    lastLog,              \* history: what the latest log() call did
    args,                 \* the call made on the normalizer (src/normalize.js)
    result                \* what that call returned

vars == <<token, sessionId, disabled, disabledPermanently, _logQueue,
          _batchTimeout, _processing, _shutdown, timers, immediates, inflight,
          requests, returns, flushPc, atFlush, calls, flushCalls, configChanges, got401,
          variant, passthroughConsole, passthroughOnFailure, errorListener,
          logCalls, lastLog, args, result>>

\* the call on the normalizer and its result
nvars == <<args, result>>

\* the handler's own state and history
hvars == <<variant, passthroughConsole, passthroughOnFailure, errorListener,
           logCalls, lastLog>>

Min(a, b) == IF a < b THEN a ELSE b

\* ------------------------------------------------------- the client as a value
\* The fields an operation of VibexClient reads and writes, as one record, so
\* that the methods compose the way the code calls them.
Client ==
    [token |-> token, sessionId |-> sessionId,
     disabled |-> disabled, disabledPermanently |-> disabledPermanently,
     _logQueue |-> _logQueue, _batchTimeout |-> _batchTimeout,
     _processing |-> _processing, _shutdown |-> _shutdown,
     timers |-> timers, immediates |-> immediates, inflight |-> inflight,
     requests |-> requests, returns |-> returns,
     flushPc |-> flushPc, atFlush |-> atFlush]

Install(c) ==
    /\ token' = c.token
    /\ sessionId' = c.sessionId
    /\ disabled' = c.disabled
    /\ disabledPermanently' = c.disabledPermanently
    /\ _logQueue' = c._logQueue
    /\ _batchTimeout' = c._batchTimeout
    /\ _processing' = c._processing
    /\ _shutdown' = c._shutdown
    /\ timers' = c.timers
    /\ immediates' = c.immediates
    /\ inflight' = c.inflight
    /\ requests' = c.requests
    /\ returns' = c.returns
    /\ flushPc' = c.flushPc
    /\ atFlush' = c.atFlush

\* VibexConfig.isValid
isValid(c) == c.token /\ c.sessionId

\* VibexClient.isEnabled
isEnabled(c) == ~c.disabled /\ ~c.disabledPermanently /\ isValid(c)

\* setTimeout returns a handle no live timer has
NewTimer(c) ==
    CHOOSE h \in 1..(Cardinality(c.timers) + 2) : h \notin c.timers /\ h # c._batchTimeout

\* mutant of _scheduleBatch: _shutdown is not tested
_scheduleBatchIgnoresShutdown(c) ==
    IF c._batchTimeout # 0 \/ c._processing
    THEN c
    ELSE LET h == NewTimer(c)
         IN  [c EXCEPT !._batchTimeout = h, !.timers = @ \cup {h}]

\* VibexClient._scheduleBatch
_scheduleBatch(c) ==
    IF c._batchTimeout # 0 \/ c._processing \/ c._shutdown
    THEN c
    ELSE LET h == NewTimer(c)
         IN  [c EXCEPT !._batchTimeout = h, !.timers = @ \cup {h}]

\* the answer of a pending _sendBatch call the transport has not answered
NoAnswer == [kind |-> "none"]

\* mutant of _sendBatch: disabled and disabledPermanently are not tested
_sendBatchNoKillSwitch(c, batch, awaited) ==
    LET pending(stage) == [batch |-> batch, stage |-> stage, awaited |-> awaited,
                           answer |-> NoAnswer]
    IN  IF Len(batch) = 0
        THEN [c EXCEPT !.inflight = @ \cup {pending("resume")}]
        ELSE IF ~isValid(c)
        THEN [c EXCEPT !.disabled = TRUE,
                       !.inflight = @ \cup {pending("resume")}]
        ELSE [c EXCEPT !.requests = Append(@, batch),
                       !.inflight = @ \cup {pending("http")}]

\* mutant of _sendBatch: the configuration is not checked before the request
_sendBatchNoValidityCheck(c, batch, awaited) ==
    LET pending(stage) == [batch |-> batch, stage |-> stage, awaited |-> awaited,
                           answer |-> NoAnswer]
    IN  IF Len(batch) = 0 \/ c.disabled \/ c.disabledPermanently
        THEN [c EXCEPT !.inflight = @ \cup {pending("resume")}]
        ELSE [c EXCEPT !.requests = Append(@, batch),
                       !.inflight = @ \cup {pending("http")}]

\* VibexClient._sendBatch up to its first suspension: either it returns at once
\* (the caller's await resumes in a microtask: stage "resume") or it issues the
\* HTTP request and waits for the response (stage "http"). awaited: flush()
\* awaits the _processBatch call that made this call.
_sendBatch(c, batch, awaited) ==
    LET pending(stage) == [batch |-> batch, stage |-> stage, awaited |-> awaited,
                           answer |-> NoAnswer]
    IN  IF Len(batch) = 0 \/ c.disabled \/ c.disabledPermanently
        THEN [c EXCEPT !.inflight = @ \cup {pending("resume")}]
        ELSE IF ~isValid(c)
        THEN [c EXCEPT !.disabled = TRUE,
                       !.inflight = @ \cup {pending("resume")}]
        ELSE [c EXCEPT !.requests = Append(@, batch),
                       !.inflight = @ \cup {pending("http")}]

\* mutant of _processBatchResume: the flag is released and nothing is scheduled
_processBatchResumeNoRearm(c) == [c EXCEPT !._processing = FALSE]

\* VibexClient._processBatch after `await this._sendBatch(batch)`
_processBatchResume(c) ==
    LET c1 == [c EXCEPT !._processing = FALSE]
    IN  IF Len(c1._logQueue) > 0 /\ ~c1._shutdown
        THEN _scheduleBatch(c1)
        ELSE c1

\* mutant of splice: the newest n elements are removed
spliceNewest(q, n) ==
    LET k == Min(n, Len(q))
    IN  [removed |-> SubSeq(q, Len(q) - k + 1, Len(q)), left |-> SubSeq(q, 1, Len(q) - k)]

\* mutant of splice: the count is ignored and the whole array is removed
spliceAll(q, n) == [removed |-> q, left |-> <<>>]

\* Array.prototype.splice(0, n): the elements removed and the array left
splice(q, n) ==
    LET k == Min(n, Len(q))
    IN  [removed |-> SubSeq(q, 1, k), left |-> SubSeq(q, k + 1, Len(q))]

\* mutant of _processBatch: an extraction does not reset _batchTimeout
_processBatchKeepsHandle(c, awaited) ==
    IF c._processing \/ c._shutdown \/ Len(c._logQueue) = 0
    THEN [c EXCEPT !._batchTimeout = 0]
    ELSE LET cut   == splice(c._logQueue, BATCH_SIZE)
             batch == cut.removed
             c1    == [c EXCEPT !._processing = TRUE,
                                !._logQueue = cut.left]
         IN  IF Len(batch) > 0
             THEN _sendBatch(c1, batch, awaited)
             ELSE _processBatchResume(c1)

\* mutant of _processBatch: no reentrancy guard, a batch is extracted whenever
\* the queue is not empty
_processBatchNoGuard(c, awaited) ==
    IF Len(c._logQueue) = 0
    THEN [c EXCEPT !._batchTimeout = 0]
    ELSE LET cut   == splice(c._logQueue, BATCH_SIZE)
             batch == cut.removed
             c1    == [c EXCEPT !._processing = TRUE,
                                !._batchTimeout = 0,
                                !._logQueue = cut.left]
         IN  _sendBatch(c1, batch, awaited)

\* VibexClient._processBatch up to its first suspension
_processBatch(c, awaited) ==
    IF c._processing \/ c._shutdown \/ Len(c._logQueue) = 0
    THEN [c EXCEPT !._batchTimeout = 0]
    ELSE LET cut   == splice(c._logQueue, BATCH_SIZE)
             batch == cut.removed
             c1    == [c EXCEPT !._processing = TRUE,
                                !._batchTimeout = 0,
                                !._logQueue = cut.left]
         IN  IF Len(batch) > 0
             THEN _sendBatch(c1, batch, awaited)
             ELSE _processBatchResume(c1)

\* mutant of queueFull: the limit tested with > instead of >=
queueFullOffByOne(c) == Len(c._logQueue) > MAX_QUEUE_SIZE

\* the queue size limit of sendLog
queueFull(c) == Len(c._logQueue) >= MAX_QUEUE_SIZE

\* mutant of sendLog: the entry is sent by the call itself, in a request of
\* its own, as the client without batching does
sendLogDirect(c) ==
    LET id == Len(c.returns) + 1
    IN  IF c.disabled \/ c.disabledPermanently \/ ~isValid(c)
        THEN [c EXCEPT !.returns = Append(@, FALSE)]
        ELSE [c EXCEPT !.returns = Append(@, TRUE),
                       !.requests = Append(@, <<id>>),
                       !.inflight = @ \cup {[batch |-> <<id>>, stage |-> "http",
                                              awaited |-> FALSE, answer |-> NoAnswer]}]

\* mutant of sendLog: the flags are tested after the push, so a refused entry
\* is in the queue
sendLogQueuesRefused(c) ==
    LET id == Len(c.returns) + 1
    IN  IF c.disabled \/ c.disabledPermanently
        THEN [c EXCEPT !._logQueue = Append(@, id), !.returns = Append(@, FALSE)]
        ELSE IF ~isValid(c)
        THEN [c EXCEPT !.disabled = TRUE, !.returns = Append(@, FALSE)]
        ELSE IF queueFull(c)
        THEN [c EXCEPT !.returns = Append(@, FALSE)]
        ELSE LET c1 == [c EXCEPT !._logQueue = Append(@, id),
                                 !.returns = Append(@, TRUE)]
             IN  IF c1._batchTimeout = 0 /\ ~c1._processing
                 THEN IF Len(c1._logQueue) >= BATCH_SIZE
                      THEN [c1 EXCEPT !.immediates = @ + 1]
                      ELSE _scheduleBatch(c1)
                 ELSE c1

\* VibexClient.sendLog: one call, whose return value is appended to returns
\* and whose entry id is its arrival index
sendLog(c) ==
    LET id == Len(c.returns) + 1
    IN  IF c.disabled \/ c.disabledPermanently
        THEN [c EXCEPT !.returns = Append(@, FALSE)]
        ELSE IF ~isValid(c)
        THEN [c EXCEPT !.disabled = TRUE, !.returns = Append(@, FALSE)]
        ELSE IF queueFull(c)
        THEN [c EXCEPT !.returns = Append(@, FALSE)]
        ELSE LET c1 == [c EXCEPT !._logQueue = Append(@, id),
                                 !.returns = Append(@, TRUE)]
             IN  IF c1._batchTimeout = 0 /\ ~c1._processing
                 THEN IF Len(c1._logQueue) >= BATCH_SIZE
                      THEN [c1 EXCEPT !.immediates = @ + 1]
                      ELSE _scheduleBatch(c1)
                 ELSE c1

\* n sendLog calls in immediate succession (a synchronous loop of the caller)
RECURSIVE sendLogTimes(_, _)
sendLogTimes(c, n) ==
    IF n = 0
    THEN c
    ELSE LET c1 == sendLog(c)
         IN  IF Len(c1.returns) > 0 THEN sendLogTimes(c1, n - 1) ELSE c1

\* ------------------------------------------------------------ HTTP responses
\* What the transport hands back to _sendBatch: the http fallback resolves null
\* on a socket error or timeout, fetch rejects on a network error or on the
\* abort of the 5 s timeout, otherwise a response with a status and a body.
Absent == "<absent>"

\* the texts a 429 body carries in its error and message fields
Texts == {"History Limit Reached", "Too Many Requests", "Rate limit exceeded",
          "Session History Limit exceeded", "history limit", ""}

\* String.prototype.toLowerCase on Texts
toLowerCase(s) ==
    CASE s = "History Limit Reached"          -> "history limit reached"
      [] s = "Too Many Requests"              -> "too many requests"
      [] s = "Rate limit exceeded"            -> "rate limit exceeded"
      [] s = "Session History Limit exceeded" -> "session history limit exceeded"
      [] OTHER                                -> s

\* s.includes('history limit'), on the texts toLowerCase produces and on Texts
includesHistoryLimit(s) ==
    s \in {"history limit reached", "session history limit exceeded", "history limit"}

\* JavaScript truthiness of a field that is a string or undefined
Truthy(s) == s # Absent /\ s # ""

Unparsable == [error |-> Absent, message |-> Absent, parses |-> FALSE]

Bodies429 ==
    {Unparsable}
    \cup {[error |-> e, message |-> m, parses |-> TRUE] :
              e \in {Absent, "History Limit Reached", "Too Many Requests", "history limit"},
              m \in {Absent, "", "Rate limit exceeded", "Session History Limit exceeded"}}

NoBody == [error |-> Absent, message |-> Absent, parses |-> TRUE]

Responses ==
    {[kind |-> k, status |-> 0, body |-> NoBody] : k \in {"null", "throw"}}
    \cup {[kind |-> "response", status |-> s, body |-> NoBody] :
              s \in {200, 401, 403, 404, 500}}
    \cup {[kind |-> "response", status |-> 429, body |-> b] : b \in Bodies429}

\* mutant of isHistoryLimit: only the error code is tested
isHistoryLimitCodeOnly(body) ==
    body.parses /\ body.error = "History Limit Reached"

\* the 429 branch of _sendBatch: errorMessage and isHistoryLimit
isHistoryLimit(body) ==
    IF ~body.parses
    THEN FALSE
    ELSE LET errorMessage == IF Truthy(body.message) THEN body.message
                             ELSE IF Truthy(body.error) THEN body.error
                             ELSE "Rate limit exceeded"
         IN  \/ body.error = "History Limit Reached"
             \/ includesHistoryLimit(toLowerCase(errorMessage))

\* response.ok
ok(status) == status >= 200 /\ status < 300

\* mutant of _sendBatchResponse: a rejection of fetch is not caught, so the
\* promise of _sendBatch rejects and _processBatch does not resume
_sendBatchResponseThrows(c, s, r) ==
    LET done == [c EXCEPT !.inflight =
                     (@ \ {s}) \cup {[s EXCEPT !.stage = "resume", !.answer = r]}]
    IN  IF r.kind = "throw"
        THEN [c EXCEPT !.inflight = @ \ {s}]
        ELSE IF r.kind # "response"
        THEN done
        ELSE IF r.status = 401 \/ r.status = 403
        THEN [done EXCEPT !.disabledPermanently = TRUE]
        ELSE IF r.status = 429
        THEN IF isHistoryLimit(r.body)
             THEN [done EXCEPT !.disabledPermanently = TRUE]
             ELSE done
        ELSE done

\* mutant of _sendBatchResponse: only 403 sets the permanent latch
_sendBatchResponse403Only(c, s, r) ==
    LET done == [c EXCEPT !.inflight =
                     (@ \ {s}) \cup {[s EXCEPT !.stage = "resume", !.answer = r]}]
    IN  IF r.kind = "response" /\ (r.status = 403 \/ (r.status = 429 /\ isHistoryLimit(r.body)))
        THEN [done EXCEPT !.disabledPermanently = TRUE]
        ELSE done

\* mutant of _sendBatchResponse: every 429 sets the permanent latch
_sendBatchResponseAny429(c, s, r) ==
    LET done == [c EXCEPT !.inflight =
                     (@ \ {s}) \cup {[s EXCEPT !.stage = "resume", !.answer = r]}]
    IN  IF r.kind = "response" /\ r.status \in {401, 403, 429}
        THEN [done EXCEPT !.disabledPermanently = TRUE]
        ELSE done

\* mutant of _sendBatchResponse: a batch whose send failed is put back at the
\* head of the queue
_sendBatchResponseRequeue(c, s, r) ==
    LET done == [c EXCEPT !.inflight =
                     (@ \ {s}) \cup {[s EXCEPT !.stage = "resume", !.answer = r]}]
    IN  IF r.kind = "response" /\ ok(r.status)
        THEN done
        ELSE [done EXCEPT !._logQueue = s.batch \o @]

\* VibexClient._sendBatch from the arrival of the transport's answer r to its
\* return, for the pending call s
_sendBatchResponse(c, s, r) ==
    LET done == [c EXCEPT !.inflight =
                     (@ \ {s}) \cup {[s EXCEPT !.stage = "resume", !.answer = r]}]
    IN  IF r.kind # "response"
        THEN done
        ELSE IF r.status = 401 \/ r.status = 403
        THEN [done EXCEPT !.disabledPermanently = TRUE]
        ELSE IF r.status = 429
        THEN IF isHistoryLimit(r.body)
             THEN [done EXCEPT !.disabledPermanently = TRUE]
             ELSE done
        ELSE done

\* VibexClient.flush: the loop condition
flushCondition(c) ==
    Len(c._logQueue) > 0 /\ ~c.disabled /\ ~c.disabledPermanently

\* mutant of flush: _batchTimeout is reset without clearTimeout
flushForgetsTimer(c) ==
    IF c._shutdown
    THEN c
    ELSE LET c1 == [c EXCEPT !._shutdown = TRUE, !.atFlush = c._logQueue]
             c2 == [c1 EXCEPT !._batchTimeout = 0]
         IN  IF flushCondition(c2)
             THEN [_processBatch(c2, TRUE) EXCEPT !.flushPc = "looping"]
             ELSE [c2 EXCEPT !.flushPc = "done"]

\* mutant of flush: no early return when _shutdown is already set
flushNoGuard(c) ==
    LET c1 == [c EXCEPT !._shutdown = TRUE, !.atFlush = c._logQueue]
        c2 == IF c1._batchTimeout # 0
              THEN [c1 EXCEPT !.timers = @ \ {c1._batchTimeout},
                              !._batchTimeout = 0]
              ELSE c1
    IN  IF flushCondition(c2)
        THEN [_processBatch(c2, TRUE) EXCEPT !.flushPc = "looping"]
        ELSE [c2 EXCEPT !.flushPc = "done"]

\* VibexClient.flush up to its first suspension (or to its return)
flush(c) ==
    IF c._shutdown
    THEN c
    ELSE LET c1 == [c EXCEPT !._shutdown = TRUE, !.atFlush = c._logQueue]
             c2 == IF c1._batchTimeout # 0
                   THEN [c1 EXCEPT !.timers = @ \ {c1._batchTimeout},
                                   !._batchTimeout = 0]
                   ELSE c1
         IN  IF flushCondition(c2)
             THEN [_processBatch(c2, TRUE) EXCEPT !.flushPc = "looping"]
             ELSE [c2 EXCEPT !.flushPc = "done"]

\* VibexClient.flush from the return of `await this._processBatch()` to the
\* next suspension (or to its return)
flushResume(c) ==
    IF flushCondition(c)
    THEN [_processBatch(c, TRUE) EXCEPT !.flushPc = "looping"]
    ELSE [c EXCEPT !.flushPc = "done"]

\* ------------------------------------------------------------ the event loop
\* A continuation of an await is a microtask; the loop runs no timer, no
\* setImmediate callback and no I/O callback while a microtask is pending.
MicrotaskPending ==
    \/ flushPc = "looping" /\ ~\E s \in inflight : s.awaited
    \/ \E s \in inflight : s.stage = "resume"

Bursts == {1, MaxBurst}

\* mutant of ClientInit: the constructor does not look at the configuration
ClientInitEnabled ==
    /\ token \in BOOLEAN
    /\ sessionId \in BOOLEAN
    /\ disabled = FALSE
    /\ disabledPermanently = FALSE
    /\ _logQueue = <<>>
    /\ _batchTimeout = 0
    /\ _processing = FALSE
    /\ _shutdown = FALSE
    /\ timers = {}
    /\ immediates = 0
    /\ inflight = {}
    /\ requests = <<>>
    /\ returns = <<>>
    /\ flushPc = "idle"
    /\ atFlush = <<>>
    /\ calls = 0
    /\ flushCalls = 0
    /\ configChanges = 0
    /\ got401 = FALSE

\* the state in which the constructor of VibexClient leaves the client
ClientInit ==
    /\ token \in BOOLEAN
    /\ sessionId \in BOOLEAN
    /\ disabled = ~(token /\ sessionId)
    /\ disabledPermanently = FALSE
    /\ _logQueue = <<>>
    /\ _batchTimeout = 0
    /\ _processing = FALSE
    /\ _shutdown = FALSE
    /\ timers = {}
    /\ immediates = 0
    /\ inflight = {}
    /\ requests = <<>>
    /\ returns = <<>>
    /\ flushPc = "idle"
    /\ atFlush = <<>>
    /\ calls = 0
    /\ flushCalls = 0
    /\ configChanges = 0
    /\ got401 = FALSE

\* no log() call yet
NoLog == [message |-> "", kind |-> "none", fails |-> "none", submitted |-> FALSE, logType |-> "none",
          accepted |-> FALSE, wrote |-> FALSE, errorEvents |-> 0, callbacks |-> 0,
          rejected |-> FALSE, isTextLog |-> FALSE]

\* no call on the normalizer
NoCall == [op |-> "none"]

\* a client constructed directly by the application, without a handler
Init ==
    /\ ClientInit
    /\ variant = "none"
    /\ passthroughConsole = FALSE
    /\ passthroughOnFailure = FALSE
    /\ errorListener = FALSE
    /\ logCalls = 0
    /\ lastLog = NoLog
    /\ args = NoCall
    /\ result = NoCall

\* the application calls sendLog n times in immediate succession
SendLogCall(n) ==
    /\ calls < MaxCalls
    /\ calls' = calls + 1
    /\ Install(sendLogTimes(Client, n))
    /\ UNCHANGED <<flushCalls, configChanges, got401, hvars, nvars>>

\* the application changes the configuration object the client holds
SetConfig(t, s) ==
    /\ configChanges < MaxConfigChanges
    /\ <<t, s>> # <<token, sessionId>>
    /\ configChanges' = configChanges + 1
    /\ Install([Client EXCEPT !.token = t, !.sessionId = s])
    /\ UNCHANGED <<calls, flushCalls, got401, hvars, nvars>>

\* the setTimeout callback of _scheduleBatch fires
TimerFire(h) ==
    /\ h \in timers
    /\ ~MicrotaskPending
    /\ Install(_processBatch([Client EXCEPT !.timers = @ \ {h}], FALSE))
    /\ UNCHANGED <<calls, flushCalls, configChanges, got401, hvars, nvars>>

\* a setImmediate callback of sendLog runs
ImmediateRun ==
    /\ immediates > 0
    /\ ~MicrotaskPending
    /\ Install(_processBatch([Client EXCEPT !.immediates = @ - 1], FALSE))
    /\ UNCHANGED <<calls, flushCalls, configChanges, got401, hvars, nvars>>

\* the transport answers the pending request s with r; a rejection of fetch
\* needs no I/O and can arrive while microtasks are pending
SendComplete(s, r) ==
    /\ s \in inflight
    /\ s.stage = "http"
    /\ r.kind = "throw" \/ ~MicrotaskPending
    /\ Install(_sendBatchResponse(Client, s, r))
    /\ got401' = (got401 \/ (r.kind = "response" /\ r.status = 401))
    /\ UNCHANGED <<calls, flushCalls, configChanges, hvars, nvars>>

\* _processBatch resumes after its await of _sendBatch
ProcessBatchResume(s) ==
    /\ s \in inflight
    /\ s.stage = "resume"
    /\ Install(_processBatchResume([Client EXCEPT !.inflight = @ \ {s}]))
    /\ UNCHANGED <<calls, flushCalls, configChanges, got401, hvars, nvars>>

\* the application (or an exit/signal handler) calls flush()
FlushCall ==
    /\ flushCalls < MaxFlushCalls
    /\ flushCalls' = flushCalls + 1
    /\ Install(flush(Client))
    /\ UNCHANGED <<calls, configChanges, got401, hvars, nvars>>

\* flush() resumes after `await this._processBatch()` and tests its loop
\* condition again
FlushLoop ==
    /\ flushPc = "looping"
    /\ ~\E s \in inflight : s.awaited
    /\ Install(flushResume(Client))
    /\ UNCHANGED <<calls, flushCalls, configChanges, got401, hvars, nvars>>

Next ==
    \/ \E n \in Bursts : SendLogCall(n)
    \/ \E t, s \in BOOLEAN : SetConfig(t, s)
    \/ \E h \in timers : TimerFire(h)
    \/ ImmediateRun
    \/ \E s \in inflight, r \in Responses : SendComplete(s, r)
    \/ \E s \in inflight : ProcessBatchResume(s)
    \/ FlushCall
    \/ FlushLoop

Spec == Init /\ [][Next]_vars

\* The event loop runs every callback that is due and every continuation whose
\* promise is settled; the transport answers every request (after 5 s at the
\* latest). The application's own calls are under no obligation.
Fairness ==
    /\ WF_vars(\E h \in timers : TimerFire(h))
    /\ WF_vars(ImmediateRun)
    /\ WF_vars(\E s \in inflight, r \in Responses : SendComplete(s, r))
    /\ WF_vars(\E s \in inflight : ProcessBatchResume(s))
    /\ WF_vars(FlushLoop)

FairSpec == Init /\ [][Next]_vars /\ Fairness

\* ---------------------------------------------------- a client never flushed
\* The application never calls flush(): sendLog, configuration changes,
\* timers, answers and continuations. No setImmediate callback is pending in
\* these runs (sendLog issues one only when no timer is armed and no batch is
\* in flight with 50 entries queued, which needs _shutdown).
DrainNext ==
    \/ \E n \in Bursts : SendLogCall(n)
    \/ \E t, s \in BOOLEAN : SetConfig(t, s)
    \/ \E h \in timers : TimerFire(h)
    \/ \E s \in inflight, r \in Responses : SendComplete(s, r)
    \/ \E s \in inflight : ProcessBatchResume(s)

DrainFairness ==
    /\ WF_vars(\E h \in timers : TimerFire(h))
    /\ WF_vars(\E s \in inflight, r \in Responses : SendComplete(s, r))
    /\ WF_vars(\E s \in inflight : ProcessBatchResume(s))

DrainSpec == Init /\ [][DrainNext]_vars /\ DrainFairness

\* ------------------------------------------------------ the winston transport
\* the messages of the records logged
Messages == {"started", "42", "[1,2]", "null", "{\"cpu\":10}"}

\* JSON.parse on these messages: the value (by its kind), or a SyntaxError
JSONparse(m) ==
    CASE m = "{\"cpu\":10}" -> [threw |-> FALSE, value |-> "object"]
      [] m = "[1,2]"         -> [threw |-> FALSE, value |-> "array"]
      [] m = "null"          -> [threw |-> FALSE, value |-> "null"]
      [] m = "42"            -> [threw |-> FALSE, value |-> "number"]
      [] OTHER               -> [threw |-> TRUE, value |-> "undefined"]

\* the typeof operator: arrays and null are of type 'object'
typeof(v) == IF v \in {"object", "array", "null"} THEN "object" ELSE v

\* mutant of kindOf: typeof alone decides, so null and arrays pass as objects
kindOfTypeofOnly(m) ==
    LET parsed == JSONparse(m)
    IN  IF parsed.threw THEN "text"
        ELSE IF typeof(parsed.value) = "object" THEN "object"
        ELSE "scalar"

\* the test log() applies to the message: the text of a JSON object
\* ("object"), JSON text of anything else ("scalar") or no JSON ("text")
kindOf(m) ==
    LET parsed == JSONparse(m)
    IN  IF parsed.threw THEN "text"
        ELSE IF typeof(parsed.value) = "object" /\ parsed.value # "null"
                /\ parsed.value # "array"
        THEN "object"
        ELSE "scalar"

\* What winston hands to log(): a record with its message and the place, if
\* any, where handling it throws: "resolve" (reading the message of the
\* record), "normalize" (the level, the extra fields, the payload or the
\* hybrid record), "submit" (the promise of sendLog rejects), "console"
\* (JSON.stringify or console.error).
Infos == [message : Messages,
          fails : {"none", "resolve", "normalize", "submit", "console"}]

\* the handler in use, as a value
Handler ==
    [variant |-> variant, passthroughConsole |-> passthroughConsole,
     passthroughOnFailure |-> passthroughOnFailure, errorListener |-> errorListener]

\* callback()
callback(out) == [out EXCEPT !.callbacks = @ + 1]

\* the outer catch of log() and the callback() after it: EventEmitter.emit
\* of 'error' calls the listeners, and throws the error when there is none,
\* which rejects the promise of log() before callback() is reached
catchAll(h, out) ==
    IF h.errorListener
    THEN callback([out EXCEPT !.errorEvents = @ + 1])
    ELSE [out EXCEPT !.rejected = TRUE]

\* mutant of submitAndPassthrough: a dispatcher that is not enabled does not
\* count as a failed submission
submitAndPassthroughNoElse(h, c, info, out) ==
    LET enabled == isEnabled(c)
        threw   == enabled /\ info.fails = "submit"
        c1      == IF enabled /\ ~threw THEN sendLog(c) ELSE c
        sendSucceeded == enabled /\ ~threw /\ c1.returns[Len(c1.returns)]
        shouldWriteToConsole ==
            IF enabled
            THEN IF threw
                 THEN h.passthroughConsole \/ h.passthroughOnFailure
                 ELSE h.passthroughConsole \/ (h.passthroughOnFailure /\ ~sendSucceeded)
            ELSE h.passthroughConsole
        wrote == shouldWriteToConsole /\ info.fails # "console"
    IN  [client |-> c1,
         out |-> [out EXCEPT !.submitted = enabled, !.logType = "json",
                             !.accepted = sendSucceeded, !.wrote = wrote]]

\* mutant of submitAndPassthrough: a text log is submitted with type 'text'
submitAndPassthroughTextKind(h, c, info, out) ==
    LET enabled == isEnabled(c)
        threw   == enabled /\ info.fails = "submit"
        c1      == IF enabled /\ ~threw THEN sendLog(c) ELSE c
        sendSucceeded == enabled /\ ~threw /\ c1.returns[Len(c1.returns)]
        shouldWriteToConsole ==
            IF enabled
            THEN IF threw
                 THEN h.passthroughConsole \/ h.passthroughOnFailure
                 ELSE h.passthroughConsole \/ (h.passthroughOnFailure /\ ~sendSucceeded)
            ELSE h.passthroughConsole \/ h.passthroughOnFailure
        wrote == shouldWriteToConsole /\ info.fails # "console"
    IN  [client |-> c1,
         out |-> [out EXCEPT !.submitted = enabled,
                             !.logType = IF out.isTextLog THEN "text" ELSE "json",
                             !.accepted = sendSucceeded, !.wrote = wrote]]

\* log(): submission to the client and console passthrough
submitAndPassthrough(h, c, info, out) ==
    LET enabled == isEnabled(c)
        threw   == enabled /\ info.fails = "submit"
        c1      == IF enabled /\ ~threw THEN sendLog(c) ELSE c
        sendSucceeded == enabled /\ ~threw /\ c1.returns[Len(c1.returns)]
        shouldWriteToConsole ==
            IF enabled
            THEN IF threw
                 THEN h.passthroughConsole \/ h.passthroughOnFailure
                 ELSE h.passthroughConsole \/ (h.passthroughOnFailure /\ ~sendSucceeded)
            ELSE h.passthroughConsole \/ h.passthroughOnFailure
        wrote == shouldWriteToConsole /\ info.fails # "console"
    IN  [client |-> c1,
         out |-> [out EXCEPT !.submitted = enabled, !.logType = "json",
                             !.accepted = sendSucceeded, !.wrote = wrote]]

\* VibexHandler.log of src/handler.js (JSON only)
logJson(h, c, info, out) ==
    IF info.fails = "resolve"
    THEN [client |-> c, out |-> catchAll(h, out)]
    ELSE IF info.kind # "object" \/ info.fails = "normalize"
    THEN [client |-> c, out |-> callback(out)]
    ELSE LET r == submitAndPassthrough(h, c, info, out)
         IN  [client |-> r.client, out |-> callback(r.out)]

\* VibexHandler.log of src/normalize.js (hybrid records and text logs)
logHybrid(h, c, info, out) ==
    IF info.fails \in {"resolve", "normalize"}
    THEN [client |-> c, out |-> catchAll(h, out)]
    ELSE LET isTextLog == info.kind # "object"
             r == submitAndPassthrough(h, c, info, [out EXCEPT !.isTextLog = isTextLog])
         IN  [client |-> r.client, out |-> callback(r.out)]

\* VibexHandler.log
log(h, c, info) ==
    LET kind == kindOf(info.message)
        read == [kind |-> kind, fails |-> info.fails]
        out  == [NoLog EXCEPT !.message = info.message, !.kind = kind,
                              !.fails = info.fails]
    IN  IF h.variant = "json" THEN logJson(h, c, read, out)
                              ELSE logHybrid(h, c, read, out)

\* a handler constructed with its options, which constructs its client
HandlerInit ==
    /\ ClientInit
    /\ variant \in {"json", "hybrid"}
    /\ passthroughConsole \in BOOLEAN
    /\ passthroughOnFailure \in BOOLEAN
    /\ errorListener \in BOOLEAN
    /\ logCalls = 0
    /\ lastLog = NoLog
    /\ args = NoCall
    /\ result = NoCall

\* winston calls log(info, callback)
Log(info) ==
    /\ logCalls < MaxLogs
    /\ logCalls' = logCalls + 1
    /\ LET r == log(Handler, Client, info)
       IN  /\ Install(r.client)
           /\ lastLog' = r.out
    /\ UNCHANGED <<calls, flushCalls, configChanges, got401, variant,
                   passthroughConsole, passthroughOnFailure, errorListener, nvars>>

\* The handler with its client. Fewer than BATCH_SIZE entries are ever queued
\* here and flush() is not called, so that no setImmediate callback exists.
HandlerNext ==
    \/ \E info \in Infos : Log(info)
    \/ \E h \in timers : TimerFire(h)
    \/ \E s \in inflight, r \in Responses : SendComplete(s, r)
    \/ \E s \in inflight : ProcessBatchResume(s)

HandlerSpec == HandlerInit /\ [][HandlerNext]_vars

\* ------------------------------------------------------------ the normalizer
\* Strings of src/normalize.js are tuples of characters, so that toLowerCase,
\* includes and endsWith are computed on them.
upper == <<"A", "B", "C", "D", "E", "F", "G", "H", "I", "J", "K", "L", "M", "N", "O", "P", "Q", "R", "S", "T", "U", "V", "W", "X", "Y", "Z">>
lower == <<"a", "b", "c", "d", "e", "f", "g", "h", "i", "j", "k", "l", "m", "n", "o", "p", "q", "r", "s", "t", "u", "v", "w", "x", "y", "z">>
digits == <<"0", "1", "2", "3", "4", "5", "6", "7", "8", "9">>

\* String.prototype.toLowerCase, on one character and on a string
lowerChar(ch) ==
    IF \E i \in 1..Len(upper) : upper[i] = ch
    THEN lower[CHOOSE i \in 1..Len(upper) : upper[i] = ch]
    ELSE ch

RECURSIVE lowerCase(_)
lowerCase(str) ==
    IF str = <<>> THEN <<>> ELSE <<lowerChar(Head(str))>> \o lowerCase(Tail(str))

\* String.prototype.includes
includes(str, sub) ==
    \E i \in 0..(Len(str) - Len(sub)) : SubSeq(str, i + 1, i + Len(sub)) = sub

\* String.prototype.endsWith
endsWith(str, suffix) ==
    /\ Len(suffix) <= Len(str)
    /\ SubSeq(str, Len(str) - Len(suffix) + 1, Len(str)) = suffix

\* JavaScript values: the type tag, the number, the string and the own
\* properties (a function from keys to values) of the value
Undefined == [t |-> "undefined", n |-> 0, s |-> <<>>, o |-> <<>>]
Null == [t |-> "null", n |-> 0, s |-> <<>>, o |-> <<>>]
Num(n) == [t |-> "number", n |-> n, s |-> <<>>, o |-> <<>>]
Str(s) == [t |-> "string", n |-> 0, s |-> s, o |-> <<>>]
Obj(o) == [t |-> "object", n |-> 0, s |-> <<>>, o |-> o]
Arr(o) == [t |-> "array", n |-> 0, s |-> <<>>, o |-> o]

\* the truth value of a value in a condition (!v, v && w, v || w)
ToBoolean(v) ==
    CASE v.t = "number" -> v.n # 0
      [] v.t = "string" -> v.s # <<>>
      [] v.t \in {"object", "array"} -> TRUE
      [] OTHER -> FALSE

\* v || w
Or(v, w) == IF ToBoolean(v) THEN v ELSE w

\* obj.key: the property, undefined when the object has none of that name
Get(obj, key) == IF key \in DOMAIN obj THEN obj[key] ELSE Undefined

\* v && typeof v === 'object' && !Array.isArray(v)
isPlainObject(v) == ToBoolean(v) /\ typeof(v.t) = "object" /\ v.t # "array"

\* String(n) for a natural number
RECURSIVE NumberToString(_)
NumberToString(n) ==
    IF n < 10 THEN <<digits[n + 1]>>
    ELSE NumberToString(n \div 10) \o <<digits[(n % 10) + 1]>>

\* String(v); of arrays only the empty one is used
String(v) ==
    CASE v.t = "string" -> v.s
      [] v.t = "number" -> NumberToString(v.n)
      [] v.t = "undefined" -> <<"u", "n", "d", "e", "f", "i", "n", "e", "d">>
      [] v.t = "null" -> <<"n", "u", "l", "l">>
      [] v.t = "array" -> <<>>
      [] OTHER -> <<"[", "o", "b", "j", "e", "c", "t", " ", "O", "b", "j", "e", "c", "t", "]">>


\* the strings used as keys and as levels
str_message == <<"m", "e", "s", "s", "a", "g", "e">>
str_msg == <<"m", "s", "g">>
str_level == <<"l", "e", "v", "e", "l">>
str_severity == <<"s", "e", "v", "e", "r", "i", "t", "y">>
str_log_level == <<"l", "o", "g", "_", "l", "e", "v", "e", "l">>
str_metrics == <<"m", "e", "t", "r", "i", "c", "s">>
str_context == <<"c", "o", "n", "t", "e", "x", "t">>
str_annotation == <<"_", "a", "n", "n", "o", "t", "a", "t", "i", "o", "n">>
str_cpu == <<"c", "p", "u">>
str_trace_id == <<"t", "r", "a", "c", "e", "_", "i", "d">>
str_traceId == <<"t", "r", "a", "c", "e", "I", "d">>
str_uptime == <<"u", "p", "t", "i", "m", "e">>
str_host == <<"h", "o", "s", "t">>
str_debug == <<"d", "e", "b", "u", "g">>
str_info == <<"i", "n", "f", "o">>
str_warn == <<"w", "a", "r", "n">>
str_error == <<"e", "r", "r", "o", "r">>

\* mutant of normalizeLevel: the level is compared as it is spelled
normalizeLevelCaseSensitive(level) ==
    IF ~ToBoolean(level)
    THEN str_debug
    ELSE LET levelStr == String(level)
         IN  IF levelStr \in {<<"d", "e", "b", "u", "g">>, <<"d", "b", "g">>, <<"t", "r", "a", "c", "e">>}
             THEN str_debug
             ELSE IF levelStr \in {<<"i", "n", "f", "o">>, <<"i", "n", "f", "o", "r", "m", "a", "t", "i", "o", "n">>, <<"l", "o", "g">>}
             THEN str_info
             ELSE IF levelStr \in {<<"w", "a", "r", "n">>, <<"w", "a", "r", "n", "i", "n", "g">>, <<"w", "r", "n">>}
             THEN str_warn
             ELSE IF levelStr \in {<<"e", "r", "r", "o", "r">>, <<"e", "r", "r">>, <<"e", "x", "c", "e", "p", "t", "i", "o", "n">>,
                                   <<"f", "a", "t", "a", "l">>, <<"c", "r", "i", "t", "i", "c", "a", "l">>}
             THEN str_error
             ELSE str_debug

\* normalizeLevel
normalizeLevel(level) ==
    IF ~ToBoolean(level)
    THEN str_debug
    ELSE LET levelStr == lowerCase(String(level))
         IN  IF levelStr \in {<<"d", "e", "b", "u", "g">>, <<"d", "b", "g">>, <<"t", "r", "a", "c", "e">>}
             THEN str_debug
             ELSE IF levelStr \in {<<"i", "n", "f", "o">>, <<"i", "n", "f", "o", "r", "m", "a", "t", "i", "o", "n">>, <<"l", "o", "g">>}
             THEN str_info
             ELSE IF levelStr \in {<<"w", "a", "r", "n">>, <<"w", "a", "r", "n", "i", "n", "g">>, <<"w", "r", "n">>}
             THEN str_warn
             ELSE IF levelStr \in {<<"e", "r", "r", "o", "r">>, <<"e", "r", "r">>, <<"e", "x", "c", "e", "p", "t", "i", "o", "n">>,
                                   <<"f", "a", "t", "a", "l">>, <<"c", "r", "i", "t", "i", "c", "a", "l">>}
             THEN str_error
             ELSE str_debug

\* extractMetrics: the Set knownContextFields, which is tested with the
\* lower-cased key
metricsKnownContextFields ==
    {
      <<"t", "r", "a", "c", "e", "_", "i", "d">>, <<"t", "r", "a", "c", "e", "I", "d">>,
      <<"u", "s", "e", "r", "_", "i", "d">>, <<"u", "s", "e", "r", "I", "d">>,
      <<"r", "e", "q", "u", "e", "s", "t", "_", "i", "d">>, <<"r", "e", "q", "u", "e", "s", "t", "I", "d">>,
      <<"c", "o", "r", "r", "e", "l", "a", "t", "i", "o", "n", "_", "i", "d">>, <<"c", "o", "r", "r", "e", "l", "a", "t", "i", "o", "n", "I", "d">>,
      <<"s", "p", "a", "n", "_", "i", "d">>, <<"s", "p", "a", "n", "I", "d">>,
      <<"s", "e", "s", "s", "i", "o", "n", "_", "i", "d">>, <<"s", "e", "s", "s", "i", "o", "n", "I", "d">>,
      <<"i", "d">>, <<"p", "i", "d">>,
      <<"p", "o", "r", "t">>, <<"y", "e", "a", "r">>,
      <<"t", "i", "m", "e", "s", "t", "a", "m", "p">>, <<"t", "i", "m", "e">>,
      <<"d", "a", "t", "e">>, <<"c", "r", "e", "a", "t", "e", "d", "A", "t">>,
      <<"u", "p", "d", "a", "t", "e", "d", "A", "t">>, <<"d", "a", "t", "e", "t", "i", "m", "e">>,
      <<"t", "s">>, <<"u", "t", "c">>,
      <<"i", "s", "o">>, <<"e", "x", "c", "_", "i", "n", "f", "o">>,
      <<"e", "x", "c", "e", "p", "t", "i", "o", "n">>, <<"e", "r", "r", "o", "r">>,
      <<"m", "e", "s", "s", "a", "g", "e">>, <<"m", "s", "g">> }

\* mutant of isMetricKey: only the suffixes make a field a metric
isMetricKeySuffixOnly(key) ==
    LET keyLower == lowerCase(key)
    IN  /\ keyLower \notin metricsKnownContextFields
        /\ ~includes(keyLower, <<"t", "i", "m", "e", "s", "t", "a", "m", "p">>)
        /\ ~includes(keyLower, <<"t", "i", "m", "e">>)
        /\ ~includes(keyLower, <<"d", "a", "t", "e">>)
        /\ \/ endsWith(key, <<"_", "m", "s">>) \/ endsWith(key, <<"_", "c", "o", "u", "n", "t">>)
           \/ endsWith(key, <<"_", "s", "i", "z", "e">>)
           \/ endsWith(key, <<"M", "s">>) \/ endsWith(key, <<"C", "o", "u", "n", "t">>)
           \/ endsWith(key, <<"S", "i", "z", "e">>)

\* extractMetrics: the test that makes a numeric top-level field a metric
isMetricKey(key) ==
    LET keyLower == lowerCase(key)
    IN  /\ keyLower \notin metricsKnownContextFields
        /\ ~includes(keyLower, <<"t", "i", "m", "e", "s", "t", "a", "m", "p">>)
        /\ ~includes(keyLower, <<"t", "i", "m", "e">>)
        /\ ~includes(keyLower, <<"d", "a", "t", "e">>)
        /\ \/ endsWith(key, <<"_", "m", "s">>) \/ endsWith(key, <<"_", "c", "o", "u", "n", "t">>)
           \/ endsWith(key, <<"_", "s", "i", "z", "e">>)
           \/ endsWith(key, <<"M", "s">>) \/ endsWith(key, <<"C", "o", "u", "n", "t">>)
           \/ endsWith(key, <<"S", "i", "z", "e">>)
           \/ \E pattern \in {<<"c", "p", "u">>, <<"m", "e", "m", "o", "r", "y">>, <<"l", "a", "t", "e", "n", "c", "y">>,
                             <<"r", "e", "s", "p", "o", "n", "s", "e", "_", "t", "i", "m", "e">>, <<"d", "u", "r", "a", "t", "i", "o", "n">>} :
                  includes(keyLower, pattern)

\* the properties of obj whose key is in keys
Pick(obj, keys) == [k \in keys |-> obj[k]]

\* extractMetrics: the properties of the metrics object it returns
extractMetrics(payload) ==
    IF ~ToBoolean(payload) \/ typeof(payload.t) # "object" \/ payload.t = "array"
    THEN <<>>
    ELSE LET given == Get(payload.o, str_metrics)
         IN  IF isPlainObject(given)
             THEN Pick(given.o, {k \in DOMAIN given.o : given.o[k].t = "number"})
             ELSE Pick(payload.o, {k \in DOMAIN payload.o :
                                      payload.o[k].t = "number" /\ isMetricKey(k)})


\* obj with obj[key] = v
Put(obj, key, v) == [k \in (DOMAIN obj) \cup {key} |-> IF k = key THEN v ELSE obj[k]]

\* extractContext: the object knownContextFields, as its entries
\* <<field, normalizedKey>> in the order of Object.entries
knownContextFields ==
    << <<<<"t", "r", "a", "c", "e", "_", "i", "d">>, <<"t", "r", "a", "c", "e", "_", "i", "d">>>>,
       <<<<"t", "r", "a", "c", "e", "I", "d">>, <<"t", "r", "a", "c", "e", "_", "i", "d">>>>,
       <<<<"u", "s", "e", "r", "_", "i", "d">>, <<"u", "s", "e", "r", "_", "i", "d">>>>,
       <<<<"u", "s", "e", "r", "I", "d">>, <<"u", "s", "e", "r", "_", "i", "d">>>>,
       <<<<"r", "e", "q", "u", "e", "s", "t", "_", "i", "d">>, <<"r", "e", "q", "u", "e", "s", "t", "_", "i", "d">>>>,
       <<<<"r", "e", "q", "u", "e", "s", "t", "I", "d">>, <<"r", "e", "q", "u", "e", "s", "t", "_", "i", "d">>>>,
       <<<<"c", "o", "r", "r", "e", "l", "a", "t", "i", "o", "n", "_", "i", "d">>, <<"c", "o", "r", "r", "e", "l", "a", "t", "i", "o", "n", "_", "i", "d">>>>,
       <<<<"c", "o", "r", "r", "e", "l", "a", "t", "i", "o", "n", "I", "d">>, <<"c", "o", "r", "r", "e", "l", "a", "t", "i", "o", "n", "_", "i", "d">>>>,
       <<<<"s", "p", "a", "n", "_", "i", "d">>, <<"s", "p", "a", "n", "_", "i", "d">>>>,
       <<<<"s", "p", "a", "n", "I", "d">>, <<"s", "p", "a", "n", "_", "i", "d">>>>,
       <<<<"s", "e", "s", "s", "i", "o", "n", "_", "i", "d">>, <<"s", "e", "s", "s", "i", "o", "n", "_", "i", "d">>>>,
       <<<<"s", "e", "s", "s", "i", "o", "n", "I", "d">>, <<"s", "e", "s", "s", "i", "o", "n", "_", "i", "d">>>> >>

\* extractContext: the loop over the entries of knownContextFields
RECURSIVE collectContext(_, _, _)
collectContext(payload, entries, context) ==
    IF entries = <<>>
    THEN context
    ELSE LET field         == Head(entries)[1]
             normalizedKey == Head(entries)[2]
             next == IF Get(payload, field) # Undefined
                     THEN Put(context, normalizedKey, payload[field])
                     ELSE context
         IN  collectContext(payload, Tail(entries), next)

\* extractContext: the value it returns
extractContext(payload) ==
    IF ~ToBoolean(payload) \/ typeof(payload.t) # "object" \/ payload.t = "array"
    THEN Obj(<<>>)
    ELSE LET given == Get(payload.o, str_context)
         IN  IF isPlainObject(given)
             THEN given
             ELSE Obj(collectContext(payload.o, knownContextFields, <<>>))

\* { ...(payload || {}), ...(extra || {}) }
Spread(payload, extra) ==
    LET p == IF ToBoolean(payload) THEN payload.o ELSE <<>>
        e == IF ToBoolean(extra) THEN extra.o ELSE <<>>
    IN  [k \in (DOMAIN p) \cup (DOMAIN e) |-> IF k \in DOMAIN e THEN e[k] ELSE p[k]]

\* normalizeToHybrid: the keys the last loop does not copy
notPreserved ==
    {str_message, str_msg, str_level, str_severity, str_log_level,
     str_metrics, str_context, str_annotation}

\* normalizeToHybrid: the properties of the hybrid record it returns
normalizeToHybrid(message, level, payload, extra) ==
    LET merged == Spread(payload, extra)
        m1 == IF ~ToBoolean(message) /\ ToBoolean(Get(merged, str_message))
              THEN merged[str_message] ELSE message
        normalizedMessage ==
              IF ~ToBoolean(m1) /\ ToBoolean(Get(merged, str_msg))
              THEN merged[str_msg] ELSE m1
        normalizedLevel ==
              normalizeLevel(Or(level, Or(Get(merged, str_level),
                                 Or(Get(merged, str_severity), Get(merged, str_log_level)))))
        metrics    == extractMetrics(Obj(merged))
        context    == extractContext(Obj(merged))
        annotation == Get(merged, str_annotation)
        hybrid0 == (str_message :> normalizedMessage) @@ (str_level :> Str(normalizedLevel))
                   @@ (str_metrics :> Obj(metrics)) @@ (str_context :> context)
        hybrid  == IF ToBoolean(annotation)
                   THEN Put(hybrid0, str_annotation, annotation)
                   ELSE hybrid0
        kept == {key \in DOMAIN merged : key \notin notPreserved /\ key \notin DOMAIN hybrid}
    IN  [k \in (DOMAIN hybrid) \cup kept |-> IF k \in DOMAIN hybrid THEN hybrid[k] ELSE merged[k]]


\* ---- the calls made on the normalizer
\* the fields a payload may have, each with the values it may take
\* (Undefined: the payload has no such field)
PayloadFields ==
    [cpu        : {Undefined, Num(10), Str(<<"h", "i", "g", "h">>)},
     trace_id   : {Undefined, Str(<<"a", "b", "c">>)},
     traceId    : {Undefined, Str(<<"x", "y", "z">>)},
     message    : {Undefined, Str(<<"m">>)},
     level      : {Undefined, Str(<<"E", "R", "R">>)},
     metrics    : {Undefined, Num(5),
                   Obj((str_cpu :> Num(99)) @@ (<<"n", "o", "t", "e">> :> Str(<<"x">>)))},
     context    : {Undefined, Obj(<<"e", "n", "v">> :> Str(<<"p", "r", "o", "d">>))},
     uptime     : {Undefined, Num(7)},
     annotation : {Undefined, Str(<<"n", "o", "t", "e">>)}]

\* the object with these fields
FromFields(c) ==
    LET all == (str_cpu :> c.cpu) @@ (str_trace_id :> c.trace_id)
               @@ (str_traceId :> c.traceId) @@ (str_message :> c.message)
               @@ (str_level :> c.level) @@ (str_metrics :> c.metrics)
               @@ (str_context :> c.context) @@ (str_uptime :> c.uptime)
               @@ (str_annotation :> c.annotation)
    IN  Obj(Pick(all, {k \in DOMAIN all : all[k] # Undefined}))

Payloads == {FromFields(c) : c \in PayloadFields}

\* the extra fields winston hands over with the record
Extras ==
    {Obj(<<>>),
     Obj(str_host :> Str(<<"h", "1">>)),
     Obj(str_cpu :> Str(<<"h", "i", "g", "h">>)),
     Obj(str_metrics :> Obj(<<"a">> :> Num(1)))}

\* the levels handed to normalizeLevel
Levels ==
    {Undefined, Null, Num(0), Num(30), Str(<<>>), Obj(<<>>)}
    \cup {Str(l) : l \in {<<"E", "R", "R">>, <<"e", "r", "r", "o", "r">>,
                         <<"f", "a", "t", "a", "l">>, <<"C", "R", "I", "T", "I", "C", "A", "L">>,
                         <<"E", "r", "r">>, <<"E", "x", "c", "e", "p", "t", "i", "o", "n">>,
                         <<"w", "a", "r", "n">>, <<"W", "A", "R", "N", "I", "N", "G">>,
                         <<"W", "r", "n">>, <<"i", "n", "f", "o">>,
                         <<"I", "n", "f", "o", "r", "m", "a", "t", "i", "o", "n">>, <<"L", "O", "G">>,
                         <<"d", "e", "b", "u", "g">>, <<"D", "B", "G">>,
                         <<"T", "r", "a", "c", "e">>, <<"v", "e", "r", "b", "o", "s", "e">>,
                         <<"e", "r", "r", "o", "r", "s">>, <<" ", "e", "r", "r", "o", "r">>,
                         <<"n", "o", "t", "i", "c", "e">>}}

Calls ==
    [op : {"normalizeToHybrid"}, message : {Undefined, Str(<<"h", "i">>)},
     level : {Undefined, Str(str_warn)}, payload : Payloads, extra : Extras]
    \cup
    [op : {"normalizeLevel"}, message : {Undefined}, level : Levels,
     payload : {Undefined}, extra : {Undefined}]

\* a call on the normalizer is about to be made; the client and the handler
\* play no part
NormalizeInit ==
    /\ ClientInit
    /\ token /\ sessionId
    /\ variant = "none"
    /\ passthroughConsole = FALSE
    /\ passthroughOnFailure = FALSE
    /\ errorListener = FALSE
    /\ logCalls = 0
    /\ lastLog = NoLog
    /\ args \in Calls
    /\ result = NoCall

\* normalizeLevel(level)
NormalizeLevelCall ==
    /\ args.op = "normalizeLevel"
    /\ result = NoCall
    /\ result' = Str(normalizeLevel(args.level))
    /\ UNCHANGED <<token, sessionId, disabled, disabledPermanently, _logQueue,
                   _batchTimeout, _processing, _shutdown, timers, immediates,
                   inflight, requests, returns, flushPc, atFlush, calls,
                   flushCalls, configChanges, got401, hvars, args>>

\* normalizeToHybrid(message, level, payload, extra)
NormalizeToHybridCall ==
    /\ args.op = "normalizeToHybrid"
    /\ result = NoCall
    /\ result' = Obj(normalizeToHybrid(args.message, args.level, args.payload, args.extra))
    /\ UNCHANGED <<token, sessionId, disabled, disabledPermanently, _logQueue,
                   _batchTimeout, _processing, _shutdown, timers, immediates,
                   inflight, requests, returns, flushPc, atFlush, calls,
                   flushCalls, configChanges, got401, hvars, args>>

NormalizeNext == NormalizeLevelCall \/ NormalizeToHybridCall

NormalizeSpec == NormalizeInit /\ [][NormalizeNext]_vars

\* ------------------------------------------------- admission without extraction
\* longest sequence of sendLog calls made with no batch extraction in between
MaxSequence == 1002

\* one sendLog call of a sequence during which no timer fires
SendLogOnce ==
    /\ Len(returns) < MaxSequence
    /\ calls' = calls + 1
    /\ Install(sendLog(Client))
    /\ UNCHANGED <<flushCalls, configChanges, got401, hvars, nvars>>

AdmissionNext == SendLogOnce

AdmissionSpec == Init /\ [][AdmissionNext]_vars

\* ------------------------------------------------- refusal at the queue limit
\* sendLog invocations (bursts) of a run that fills the queue
MaxRefusalCalls == 2

\* a single call, or as many calls as the queue holds
RefusalBursts == {1, MAX_QUEUE_SIZE}

\* the answers of these runs: the batch is taken (200) or the token is
\* rejected (401)
RefusalResponses ==
    {r \in Responses : r.kind = "response" /\ r.status \in {200, 401}}

\* n sendLog calls in immediate succession, the burst split in halves so that
\* a long one is evaluated in logarithmic depth
RECURSIVE sendLogBurst(_, _)
sendLogBurst(c, n) ==
    IF n = 0 THEN c
    ELSE IF n = 1 THEN sendLog(c)
    ELSE LET c1 == sendLogBurst(c, n \div 2)
         IN  IF Len(c1.returns) > 0 THEN sendLogBurst(c1, n - (n \div 2)) ELSE c1

\* the application calls sendLog n times in immediate succession
SendLogBurst(n) ==
    /\ calls < MaxRefusalCalls
    /\ calls' = calls + 1
    /\ Install(sendLogBurst(Client, n))
    /\ UNCHANGED <<flushCalls, configChanges, got401, hvars, nvars>>

RefusalNext ==
    \/ \E n \in RefusalBursts : SendLogBurst(n)
    \/ \E h \in timers : TimerFire(h)
    \/ \E s \in inflight, r \in RefusalResponses : SendComplete(s, r)
    \/ \E s \in inflight : ProcessBatchResume(s)

RefusalSpec == Init /\ [][RefusalNext]_vars

\* -------------------------------------------------------------------- claims
Range(q) == {q[i] : i \in 1..Len(q)}

\* the entries that were put into an HTTP request
Transmitted == UNION {Range(requests[k]) : k \in 1..Len(requests)}

\* C1: on a dispatcher that is enabled from its construction, with no batch
\* extraction between the calls, the i-th sendLog call returns true exactly
\* when i <= 1000, the queue holds the first min(N, 1000) entries in arrival
\* order, and the queue is never longer than 1000.
AdmissionBounded ==
    /\ Len(_logQueue) <= 1000
    /\ (token /\ sessionId) =>
          /\ \A i \in 1..Len(returns) : returns[i] = (i <= 1000)
          /\ _logQueue = [i \in 1..Min(Len(returns), 1000) |-> i]

AdmissionWitness ==
    /\ token /\ sessionId
    /\ Len(returns) > 1000
    /\ ~returns[Len(returns)]
    /\ Len(_logQueue) = 1000

\* C2: once a response with status 401 has been handled, the permanent latch
\* is set and stays set, and no step accepts an entry: every sendLog call made
\* from then on returns false and the queue does not grow.
RejectsAfter401 ==
    [][/\ got401' => disabledPermanently'
       /\ got401 => /\ \A i \in (Len(returns) + 1)..Len(returns') : ~returns'[i]
                    /\ Len(_logQueue') <= Len(_logQueue)]_vars

RejectsAfter401Witness ==
    /\ got401
    /\ token /\ sessionId /\ ~disabled
    /\ Len(returns) > 1
    /\ returns[1]
    /\ ~returns[Len(returns)]

\* the responses the claim names as latching: 401, 403, and 429 whose body
\* carries the error code 'History Limit Reached' or an error message (the
\* message field, or the error field when there is no message) containing
\* 'history limit' in any letter case
SaysHistoryLimit(body) ==
    /\ body.parses
    /\ \/ body.error = "History Limit Reached"
       \/ body.message = "Session History Limit exceeded"
       \/ body.message \in {Absent, ""} /\ body.error = "history limit"

Latching(r) ==
    /\ r.kind = "response"
    /\ \/ r.status \in {401, 403}
       \/ r.status = 429 /\ SaysHistoryLimit(r.body)

\* C3: disabledPermanently becomes true exactly in the steps that handle a
\* response with status 401, 403, or 429 with the hard history limit signal,
\* and it is never reset.
LatchedExactlyByHardResponses ==
    [][/\ disabledPermanently => disabledPermanently'
       /\ (~disabledPermanently /\ disabledPermanently') =>
              \E s \in inflight, r \in Responses : Latching(r) /\ SendComplete(s, r)
       /\ \A s \in inflight, r \in Responses :
              (Latching(r) /\ SendComplete(s, r)) => disabledPermanently']_vars

LatchedByHistoryLimitWitness ==
    /\ disabledPermanently
    /\ \E s \in inflight : /\ s.stage = "resume"
                           /\ s.answer.kind = "response"
                           /\ s.answer.status = 429

\* the send failures the claim names as leaving the dispatcher Active
Soft(r) ==
    \/ r.kind \in {"null", "throw"}
    \/ /\ r.kind = "response"
       /\ \/ r.status \in {404, 500}
          \/ r.status = 429 /\ ~SaysHistoryLimit(r.body)

\* C4: a send that ends in a 429 without the hard limit signal, a 404,
\* another non-2xx status, a transport failure or a timeout changes neither
\* disabled nor disabledPermanently; the batch is neither sent again nor put
\* back into the queue, when the failure arrives and when _processBatch
\* resumes after it; and on a dispatcher that was enabled a following
\* sendLog returns true.
SoftFailureKeepsActive ==
    [][/\ \A s \in inflight, r \in Responses :
              (Soft(r) /\ SendComplete(s, r)) =>
                  /\ disabled' = disabled
                  /\ disabledPermanently' = disabledPermanently
                  /\ requests' = requests
                  /\ _logQueue' = _logQueue
                  /\ isEnabled(Client) =>
                         LET after == sendLog(Client')
                         IN  after.returns[Len(after.returns)]
       /\ \A s \in inflight :
              (s.stage = "resume" /\ Soft(s.answer) /\ ProcessBatchResume(s)) =>
                  /\ disabled' = disabled
                  /\ disabledPermanently' = disabledPermanently
                  /\ requests' = requests
                  /\ _logQueue' = _logQueue
                  /\ Range(s.batch) \cap Range(_logQueue') = {}]_vars

SoftFailureWitness ==
    /\ isEnabled(Client)
    /\ \E s \in inflight : s.stage = "resume" /\ Soft(s.answer)

\* C5: once flush() has been called, every entry that was queued at that
\* moment is eventually put into an HTTP request, unless the dispatcher
\* becomes disabled (either state).
FlushSendsQueuedEntries ==
    (flushPc # "idle") ~>
        (disabled \/ disabledPermanently \/ Range(atFlush) \subseteq Transmitted)

\* C6: every flush() call eventually returns.
FlushCompletes == (flushPc = "looping") ~> (flushPc = "done")

\* C7: a flush() call that is not the first one changes nothing: it removes
\* nothing from the queue, starts no send, leaves every field of the
\* dispatcher and the drain loop of the first call as they are; and the drain
\* loop, once started, is never started again.
SecondFlushIsNoOp ==
    [][/\ (flushCalls' = flushCalls + 1 /\ flushCalls >= 1) =>
              UNCHANGED <<token, sessionId, disabled, disabledPermanently,
                          _logQueue, _batchTimeout, _processing, _shutdown,
                          timers, immediates, inflight, requests, returns,
                          flushPc, atFlush>>
       /\ flushPc # "idle" => flushPc' # "idle"
       /\ flushPc = "done" => flushPc' = "done"]_vars

SecondFlushWitness ==
    /\ flushCalls = 2
    /\ flushPc = "done"
    /\ isEnabled(Client)
    /\ Len(_logQueue) > 0

\* C8: the entries of the HTTP requests, read request after request and in
\* each request in the order of its logs array, are in arrival order (ids
\* increase inside every request, and the last id of a request is below the
\* first id of the next one; no request is empty).
FifoTransmission ==
    /\ \A k \in 1..Len(requests) :
          /\ Len(requests[k]) > 0
          /\ \A i \in 1..(Len(requests[k]) - 1) : requests[k][i] < requests[k][i + 1]
    /\ \A k \in 1..(Len(requests) - 1) :
          requests[k][Len(requests[k])] < requests[k + 1][1]

FifoWitness ==
    /\ Len(requests) >= 2
    /\ Len(requests[1]) = BATCH_SIZE

\* C9: when an accepted sendLog brings the queue of an enabled dispatcher
\* that has no batch in flight and is not shutting down to the batch size,
\* a batch extraction is scheduled with setImmediate, without the 100 ms delay.
SizeTriggersImmediateDispatch ==
    [][(/\ calls' = calls + 1
        /\ isEnabled(Client) /\ ~_processing /\ ~_shutdown
        /\ Len(_logQueue) < BATCH_SIZE
        /\ Len(_logQueue') >= BATCH_SIZE) => immediates' > immediates]_vars

\* C10: every log() call invokes its completion callback exactly once,
\* whatever the record and whatever fails while it is handled.
CallbackExactlyOnce == lastLog.kind # "none" => lastLog.callbacks = 1

\* C11: a log() call whose entry the dispatcher accepts reaches its callback
\* without any HTTP activity: the call starts no request and completes none,
\* the set of pending sends is as before, and the entry is still in the queue
\* when the callback is invoked.
LogDoesNotWaitForSend ==
    [][(logCalls' = logCalls + 1 /\ lastLog'.accepted) =>
           /\ lastLog'.callbacks = 1
           /\ requests' = requests
           /\ inflight' = inflight
           /\ Len(returns') \in Range(_logQueue')]_vars

\* the callback of the second log() call was invoked while the request of
\* the first one is still unanswered
LogDuringPendingSendWitness ==
    /\ logCalls = 2
    /\ lastLog.accepted /\ lastLog.callbacks = 1
    /\ Len(returns) \in Range(_logQueue)
    /\ \E s \in inflight : s.stage = "http" /\ s.answer = NoAnswer

\* the number of entries of all HTTP requests together
RECURSIVE SumLen(_)
SumLen(rs) == IF rs = <<>> THEN 0 ELSE Len(Head(rs)) + SumLen(Tail(rs))

\* C12: no entry is in two HTTP requests or twice in one; an entry that is in
\* a request is not in the queue; and an entry that has left the queue never
\* comes back (the queue only gains the entries of the current sendLog calls),
\* whatever the answer to the request was; stated of every step that changes
\* the queue or the requests, both being empty at the start.
AtMostOnceNoRequeue ==
    [][(_logQueue' # _logQueue \/ requests' # requests) =>
           LET queued == Range(_logQueue')
               sent   == Transmitted'
           IN  /\ \A id \in queued \ Range(_logQueue) : id > Len(returns)
               /\ SumLen(requests') = Cardinality(sent)
               /\ queued \cap sent = {}]_vars

\* a request was answered with status 500 while later entries wait in the queue
FailedBatchNotRequeuedWitness ==
    /\ Len(_logQueue) > 0
    /\ \E s \in inflight : /\ s.stage = "resume"
                           /\ s.answer.kind = "response" /\ s.answer.status = 500
                           /\ Range(s.batch) \cap Range(_logQueue) = {}

\* C13: a dispatcher constructed while the token or the session id is
\* missing is never enabled afterwards, also when the configuration is
\* completed later: every sendLog call returns false, the queue stays empty,
\* no timer is armed, no setImmediate is issued and no batch is extracted or
\* sent.
MissingConfigStartsDisabled ==
    ~(token /\ sessionId) =>
        [](/\ ~isEnabled(Client)
           /\ \A i \in 1..Len(returns) : ~returns[i]
           /\ _logQueue = <<>>
           /\ _batchTimeout = 0 /\ timers = {} /\ immediates = 0
           /\ inflight = {} /\ requests = <<>>)

\* sendLog was called on a dispatcher constructed without a session id
\* after the session id was supplied
MissingConfigWitness ==
    /\ disabled /\ ~disabledPermanently
    /\ token /\ sessionId
    /\ configChanges = 1
    /\ Len(returns) = MaxCalls * MaxBurst
    /\ \A i \in 1..Len(returns) : ~returns[i]
    /\ flushPc = "done"

\* a send that failed: no response, or a response with a status outside 2xx
FailedSend(r) == r.kind # "response" \/ ~ok(r.status)

\* C14: with passthroughOnFailure set and passthroughConsole not set, a JSON
\* log whose entry went into a request that failed has been written to
\* stderr.
FailedSendIsWritten ==
    (/\ passthroughOnFailure /\ ~passthroughConsole
     /\ lastLog.kind = "object" /\ lastLog.fails = "none" /\ lastLog.accepted
     /\ \E s \in inflight : /\ s.stage = "resume"
                            /\ FailedSend(s.answer)
                            /\ Len(returns) \in Range(s.batch))
        => lastLog.wrote

\* the latest log() call reached the passthrough decision: the record was not
\* discarded (JSON-only variant: the message is a JSON object) and neither
\* message resolution nor normalization failed
Processed ==
    /\ lastLog.kind # "none"
    /\ lastLog.fails \notin {"resolve", "normalize"}
    /\ variant = "json" => lastLog.kind = "object"

JsonOnlyDiscardsNonObjects ==
    [][(/\ logCalls' = logCalls + 1
        /\ variant = "json"
        /\ lastLog'.message \in {"started", "42", "[1,2]", "null"}
        /\ lastLog'.fails # "resolve") =>
           /\ returns' = returns
           /\ _logQueue' = _logQueue
           /\ timers' = timers /\ _batchTimeout' = _batchTimeout
           /\ ~lastLog'.submitted
           /\ ~lastLog'.wrote
           /\ lastLog'.callbacks = 1]_vars

\* "started" was logged on an enabled JSON-only handler that writes every
\* processed record to stderr
JsonOnlyDiscardWitness ==
    /\ variant = "json"
    /\ lastLog.message = "started" /\ lastLog.fails = "none"
    /\ isEnabled(Client) /\ passthroughConsole
    /\ logCalls = 1
    /\ returns = <<>> /\ ~lastLog.wrote /\ lastLog.callbacks = 1

\* C17 as stated: the submission the hybrid variant makes for the text
\* message "started" is of type 'text'.
TextSubmittedAsText ==
    (/\ variant = "hybrid"
     /\ lastLog.message = "started" /\ lastLog.fails = "none"
     /\ lastLog.submitted) => lastLog.logType = "text"

\* C17, amended: with an enabled dispatcher the hybrid variant makes exactly
\* one sendLog call for a message that is no JSON object ("started", and JSON
\* text of a number, an array or null); the call is of type 'json' and carries
\* the envelope built for text logs.
TextSubmittedAsJsonEnvelope ==
    [][(/\ logCalls' = logCalls + 1
        /\ variant = "hybrid"
        /\ isEnabled(Client)
        /\ lastLog'.message \in {"started", "42", "[1,2]", "null"}
        /\ lastLog'.fails = "none") =>
           /\ Len(returns') = Len(returns) + 1
           /\ lastLog'.submitted
           /\ lastLog'.accepted = returns'[Len(returns')]
           /\ lastLog'.isTextLog
           /\ lastLog'.logType = "json"
           /\ lastLog'.callbacks = 1]_vars

\* "started" was logged on an enabled hybrid handler and queued
TextSubmittedWitness ==
    /\ variant = "hybrid"
    /\ lastLog.message = "started" /\ lastLog.fails = "none"
    /\ lastLog.accepted /\ lastLog.isTextLog
    /\ Len(returns) = 1 /\ _logQueue = <<1>>

\* the call normalizeToHybrid(undefined, "warn",
\* {cpu: 10, trace_id: "abc", message: "m"}, {})
RoundTripCall ==
    [op |-> "normalizeToHybrid", message |-> Undefined, level |-> Str(str_warn),
     payload |-> Obj((str_cpu :> Num(10)) @@ (str_trace_id :> Str(<<"a", "b", "c">>))
                     @@ (str_message :> Str(<<"m">>))),
     extra |-> Obj(<<>>)]

\* the top-level keys of a hybrid record besides message, level, metrics,
\* context and _annotation
Remaining(hybrid) ==
    (DOMAIN hybrid) \ {str_message, str_level, str_metrics, str_context, str_annotation}

\* C18: in the record normalizeToHybrid returns, no key of metrics or of
\* context is also a remaining top-level key; and the round trip call returns
\* exactly {message: "m", level: "warn", metrics: {cpu: 10},
\* context: {trace_id: "abc"}}.
NoFieldTwice ==
    (args.op = "normalizeToHybrid" /\ result # NoCall) =>
        /\ Remaining(result.o) \cap (DOMAIN result.o[str_metrics].o) = {}
        /\ Remaining(result.o) \cap (DOMAIN result.o[str_context].o) = {}
        /\ args = RoundTripCall =>
               result.o = (str_message :> Str(<<"m">>)) @@ (str_level :> Str(str_warn))
                          @@ (str_metrics :> Obj(str_cpu :> Num(10)))
                          @@ (str_context :> Obj(str_trace_id :> Str(<<"a", "b", "c">>)))

\* the level the synonym sets give for the spellings handed in; every other
\* value, the absent level included, gives debug
ExpectedLevel(level) ==
    CASE level \in {Str(l) : l \in {<<"E", "R", "R">>, <<"e", "r", "r", "o", "r">>, <<"f", "a", "t", "a", "l">>,
                                   <<"C", "R", "I", "T", "I", "C", "A", "L">>, <<"E", "r", "r">>, <<"E", "x", "c", "e", "p", "t", "i", "o", "n">>}}
             -> str_error
      [] level \in {Str(l) : l \in {<<"w", "a", "r", "n">>, <<"W", "A", "R", "N", "I", "N", "G">>, <<"W", "r", "n">>}}
             -> str_warn
      [] level \in {Str(l) : l \in {<<"i", "n", "f", "o">>, <<"I", "n", "f", "o", "r", "m", "a", "t", "i", "o", "n">>, <<"L", "O", "G">>}}
             -> str_info
      [] OTHER -> str_debug

\* C19: normalizeLevel returns, for every level handed in, the canonical
\* level of the synonym set that holds its lower-cased spelling, and debug
\* for every other value (absent, null, a number, an empty string, an object,
\* a spelling of no set); the level of a hybrid record is one of the four.
LevelTotalCaseInsensitive ==
    /\ (args.op = "normalizeLevel" /\ result # NoCall) =>
           result = Str(ExpectedLevel(args.level))
    /\ (args.op = "normalizeToHybrid" /\ result # NoCall) =>
           result.o[str_level].s \in {str_debug, str_info, str_warn, str_error}

\* normalizeLevel("CRITICAL") has returned error
LevelWitness ==
    /\ args.op = "normalizeLevel"
    /\ args.level = Str(<<"C", "R", "I", "T", "I", "C", "A", "L">>)
    /\ result = Str(str_error)

\* the field k of the payload extractMetrics is handed by normalizeToHybrid:
\* the one of the extra fields if they have it, else the one of the payload
MergedField(k) ==
    IF args.extra.t = "object" /\ k \in DOMAIN args.extra.o THEN args.extra.o[k]
    ELSE IF args.payload.t = "object" /\ k \in DOMAIN args.payload.o THEN args.payload.o[k]
    ELSE Undefined

\* C20 as stated: when the payload argument of normalizeToHybrid has a numeric
\* cpu field and no metrics object, the metrics of the record returned have
\* the key cpu with that number, whatever the extra fields are.
CpuOfPayloadBecomesMetric ==
    (/\ args.op = "normalizeToHybrid" /\ result # NoCall
     /\ Get(args.payload.o, str_cpu).t = "number"
     /\ Get(args.payload.o, str_metrics).t # "object") =>
        /\ str_cpu \in DOMAIN result.o[str_metrics].o
        /\ result.o[str_metrics].o[str_cpu] = args.payload.o[str_cpu]

\* C20, amended: when the payload with the extra fields merged into it, which
\* is what extractMetrics is handed, has a numeric cpu field and no metrics
\* object (no metrics field, or one that is not an object), the metrics of
\* the record normalizeToHybrid returns have the key cpu with that number.
CpuBecomesMetric ==
    (/\ args.op = "normalizeToHybrid" /\ result # NoCall
     /\ MergedField(str_cpu).t = "number"
     /\ MergedField(str_metrics).t # "object") =>
        /\ str_cpu \in DOMAIN result.o[str_metrics].o
        /\ result.o[str_metrics].o[str_cpu] = MergedField(str_cpu)

\* a payload with cpu: 10, uptime: 7 and metrics: 5 gave the metrics {cpu: 10}
CpuMetricWitness ==
    /\ args.op = "normalizeToHybrid"
    /\ args.extra = Obj(<<>>)
    /\ Get(args.payload.o, str_cpu) = Num(10)
    /\ Get(args.payload.o, str_uptime) = Num(7)
    /\ Get(args.payload.o, str_metrics) = Num(5)
    /\ result # NoCall
    /\ result.o[str_metrics] = Obj(str_cpu :> Num(10))

\* C21: a dispatcher that is disabled, not permanently, accepts entries again
\* once its configuration is valid: a sendLog call made on it with the token
\* and the session id set returns true, and isEnabled() is true after it.
DisabledIsReversible ==
    [][(/\ calls' = calls + 1
        /\ disabled /\ ~disabledPermanently
        /\ token /\ sessionId) =>
           /\ returns'[Len(returns) + 1]
           /\ isEnabled(Client')]_vars

\* C22: at most one _sendBatch call is outstanding after every step (none
\* is at the start), and one is outstanding exactly while _processing is set;
\* a step taken while _processing is set, be it a timer or setImmediate
\* callback, a flush() call, a turn of its drain loop or anything else,
\* removes nothing from the queue and starts no request.
OneBatchInFlight ==
    [][/\ Cardinality(inflight') <= 1
       /\ (inflight' # {}) <=> _processing'
       /\ _processing =>
              /\ requests' = requests
              /\ Len(_logQueue') >= Len(_logQueue)
              /\ SubSeq(_logQueue', 1, Len(_logQueue)) = _logQueue]_vars

\* flush() was called, and its drain loop has turned, while the request of
\* the first 50 entries is unanswered and 10 entries wait in the queue
ReentrantExtractionWitness ==
    /\ _processing /\ flushPc = "looping"
    /\ Len(_logQueue) = MaxBurst - BATCH_SIZE
    /\ requests = <<[i \in 1..BATCH_SIZE |-> i]>>
    /\ \E s \in inflight : s.stage = "http"

\* C23 as stated: every batch extraction (a step that sets _processing)
\* removes the min(50, queue length) oldest entries, at least one, and adds
\* exactly one request, which carries exactly those entries, in every state
\* of the dispatcher.
ExtractionAlwaysSends ==
    [][(~_processing /\ _processing') =>
           LET k     == Min(BATCH_SIZE, Len(_logQueue))
               batch == SubSeq(_logQueue, 1, k)
           IN  /\ k > 0
               /\ _logQueue' = SubSeq(_logQueue, k + 1, Len(_logQueue))
               /\ requests' = Append(requests, batch)]_vars

\* C23, amended: every batch extraction removes the min(50, queue length)
\* oldest entries, at least one, and hands them to one _sendBatch call; on an
\* enabled dispatcher that call issues exactly one request, which carries
\* exactly those entries, and on a dispatcher that is disabled, permanently
\* disabled or has an invalid configuration it issues none and the entries
\* are dropped. Entries leave the queue in no other step.
ExtractionSendsOneRequest ==
    [][/\ (~_processing /\ _processing') =>
              LET k     == Min(BATCH_SIZE, Len(_logQueue))
                  batch == SubSeq(_logQueue, 1, k)
              IN  /\ k > 0
                  /\ _logQueue' = SubSeq(_logQueue, k + 1, Len(_logQueue))
                  /\ \E s \in inflight' :
                        /\ inflight' = {s}
                        /\ s.batch = batch
                        /\ s.stage = IF isEnabled(Client) THEN "http" ELSE "resume"
                  /\ requests' = IF isEnabled(Client) THEN Append(requests, batch)
                                 ELSE requests
       /\ Len(_logQueue') < Len(_logQueue) => (~_processing /\ _processing')]_vars

\* of 60 entries the first extraction sent the 50 oldest in one request,
\* which was answered 401 or 403, and the second extraction took the other 10
\* and sent nothing
ExtractionWitness ==
    /\ disabledPermanently
    /\ requests = <<[i \in 1..BATCH_SIZE |-> i]>>
    /\ _logQueue = <<>>
    /\ \E s \in inflight : /\ s.stage = "resume" /\ s.answer = NoAnswer
                           /\ s.batch = [i \in 1..(MaxBurst - BATCH_SIZE) |-> BATCH_SIZE + i]

\* C24: when _processBatch resumes after a batch, whatever the outcome of the
\* send, with entries in the queue and flush() not called, a batch timer is
\* armed by that step; and, flush() never being called (no step sets
\* _shutdown and no setImmediate callback is pending), from every state with
\* entries in the queue the queue is empty at some later time, so that every
\* entry that was in it has been extracted.
RearmedUntilExtracted ==
    /\ [][/\ \A s \in inflight :
                (ProcessBatchResume(s) /\ Len(_logQueue) > 0 /\ ~_shutdown) =>
                    /\ _batchTimeout' # 0
                    /\ _batchTimeout' \in timers'
                    /\ ~_processing'
           /\ ~_shutdown' /\ immediates' = 0]_vars
    /\ (_logQueue # <<>>) ~> (_logQueue = <<>>)

\* the request of the first 50 entries was answered, _processBatch resumed
\* and armed the timer for the 10 entries that wait, and flush() was not
\* called
RearmedWitness ==
    /\ ~_shutdown /\ ~_processing /\ inflight = {}
    /\ requests = <<[i \in 1..BATCH_SIZE |-> i]>>
    /\ Len(_logQueue) = MaxBurst - BATCH_SIZE
    /\ _batchTimeout # 0 /\ _batchTimeout \in timers
    /\ ~disabled /\ ~disabledPermanently

\* C25: no step taken while disabled is set removes an entry from the queue.
DisabledQueueNotDrained ==
    [][disabled =>
           /\ Len(_logQueue') >= Len(_logQueue)
           /\ SubSeq(_logQueue', 1, Len(_logQueue)) = _logQueue]_vars

\* the dispatcher is Active but its configuration no longer passes isValid()
ActiveInvalid == ~disabled /\ ~disabledPermanently /\ ~(token /\ sessionId)

\* C26: on a dispatcher that is neither disabled nor permanently disabled and
\* whose configuration is invalid, a sendLog call sets disabled, returns false
\* (as does every call after it) and queues nothing, and a batch extraction
\* sets disabled and drops the batch it has removed without a request; no
\* other step sets disabled. The entries concerned are never transmitted: a
\* refused entry is not queued, the queue only gains the entries of the
\* current calls, and the entries of a new request come out of the queue.
InvalidConfigDisables ==
    [][/\ (ActiveInvalid /\ calls' = calls + 1) =>
              /\ disabled'
              /\ \A i \in (Len(returns) + 1)..Len(returns') : ~returns'[i]
              /\ _logQueue' = _logQueue
              /\ requests' = requests
       /\ (ActiveInvalid /\ ~_processing /\ _processing') =>
              /\ disabled'
              /\ requests' = requests
              /\ \E s \in inflight' :
                    /\ s.stage = "resume" /\ s.answer = NoAnswer
                    /\ s.batch \o _logQueue' = _logQueue
       /\ (~disabled /\ disabled') =>
              (ActiveInvalid /\ (calls' = calls + 1 \/ (~_processing /\ _processing')))
       /\ returns' # returns =>
              \A i \in (Len(returns) + 1)..Len(returns') :
                  ~returns'[i] => i \notin Range(_logQueue')
       /\ requests' # requests =>
              Range(requests'[Len(requests')]) \subseteq Range(_logQueue)
       /\ _logQueue' # _logQueue =>
              \A id \in Range(_logQueue') \ Range(_logQueue) : id > Len(returns)]_vars

\* every sendLog call was accepted, the configuration became invalid, and the
\* batch send that followed set disabled and dropped the batch
DisabledBySendWitness ==
    /\ disabled /\ ~(token /\ sessionId)
    /\ Len(returns) = MaxBurst
    /\ \A i \in 1..Len(returns) : returns[i]
    /\ requests = <<>>
    /\ \E s \in inflight : /\ s.stage = "resume" /\ s.answer = NoAnswer
                           /\ Len(s.batch) = BATCH_SIZE

\* the ids first..last whose sendLog call returned true, in order
AcceptedIds(rets, first, last) ==
    SelectSeq([i \in 1..(last - first + 1) |-> first + i - 1], LAMBDA id : rets[id])

\* C27: the sendLog calls of a step made while disabled or disabledPermanently
\* is set all return false, and so do those made on an enabled dispatcher
\* whose queue holds 1000 entries; such a step leaves the queue, the timer,
\* the in-flight flag, the three latches and everything else but the record
\* of the return values as they are. In every step of sendLog calls the queue
\* gains exactly the accepted entries, so a refused call never changes it.
RefusedSendLogHasNoEffect ==
    [][calls' = calls + 1 =>
           /\ (\/ disabled \/ disabledPermanently
               \/ (isEnabled(Client) /\ Len(_logQueue) >= MAX_QUEUE_SIZE)) =>
                  /\ Len(returns') > Len(returns)
                  /\ \A i \in (Len(returns) + 1)..Len(returns') : ~returns'[i]
                  /\ UNCHANGED <<token, sessionId, disabled, disabledPermanently,
                                 _logQueue, _batchTimeout, _processing, _shutdown,
                                 timers, immediates, inflight, requests,
                                 flushPc, atFlush>>
           /\ _logQueue' = _logQueue \o AcceptedIds(returns', Len(returns) + 1, Len(returns'))
           /\ SubSeq(returns', 1, Len(returns)) = returns]_vars

\* with the request of the first 50 entries unanswered, a burst of 1000 calls
\* brought the queue back to 1000 entries with its first 50 calls, and the
\* other 950 were refused
RefusedWitness ==
    /\ isEnabled(Client) /\ _processing
    /\ Len(returns) = 2 * MAX_QUEUE_SIZE
    /\ returns[MAX_QUEUE_SIZE + BATCH_SIZE]
    /\ \A i \in (MAX_QUEUE_SIZE + BATCH_SIZE + 1)..Len(returns) : ~returns[i]
    /\ Len(_logQueue) = MAX_QUEUE_SIZE
    /\ _logQueue[1] = BATCH_SIZE + 1

\* C28: _shutdown is set by the first flush() call and by no other step, and
\* it is never reset; the step that sets it leaves no timer pending; and in
\* every state in which it is set no timer is pending and _batchTimeout is
\* null, whatever sendLog calls and send completions came after the flush().
ShutdownLatchBlocksTimers ==
    [][/\ _shutdown => _shutdown'
       /\ (~_shutdown /\ _shutdown') => (flushCalls = 0 /\ flushCalls' = 1)
       /\ flushCalls' = flushCalls + 1 => _shutdown'
       /\ _shutdown' => (timers' = {} /\ _batchTimeout' = 0)]_vars

\* after flush(), a request was answered, _processBatch resumed and a sendLog
\* call was accepted, and no timer is armed for the entry that waits
ShutdownWitness ==
    /\ _shutdown /\ ~_processing /\ inflight = {}
    /\ requests # <<>>
    /\ Len(_logQueue) > Len(atFlush)
    /\ Len(returns) \in Range(_logQueue)
    /\ Len(returns) \notin Range(atFlush)
    /\ timers = {} /\ _batchTimeout = 0

\* C29: a step taken while disabled or disabledPermanently is set starts no
\* HTTP request (requests is unchanged and no _sendBatch call waits for a
\* response that did not before), and one of the two flags is still set after
\* it; so from the moment the dispatcher is disabled nothing is transmitted,
\* the entries that were queued at that moment included.
KillSwitch ==
    [][(disabled \/ disabledPermanently) =>
           /\ requests' = requests
           /\ \A s \in inflight' : s.stage = "http" => s \in inflight
           /\ disabled' \/ disabledPermanently']_vars

\* 60 entries were accepted, the request of the first 50 was answered 401 or
\* 403 (or 429 with the history limit), and the other 10 have left the queue
\* without a request
KillSwitchWitness ==
    /\ disabledPermanently /\ ~disabled
    /\ Len(returns) = MaxBurst /\ \A i \in 1..MaxBurst : returns[i]
    /\ requests = <<[i \in 1..BATCH_SIZE |-> i]>>
    /\ _logQueue = <<>> /\ inflight = {} /\ ~_processing

\* C30: while flush() has not been called and the queue is not empty, either
\* a batch timer is pending or a batch is in flight, and not both; in every
\* state no timer is pending while a batch is in flight, and a pending timer
\* comes with a non-empty queue.
SchedulingInvariant ==
    /\ (~_shutdown /\ _logQueue # <<>>) => ((timers # {}) # _processing)
    /\ ~(timers # {} /\ _processing)
    /\ timers # {} => _logQueue # <<>>

\* with the request of the first 50 entries unanswered, a sendLog call was
\* accepted and armed no timer
SchedulingWitness ==
    /\ ~_shutdown /\ _processing /\ timers = {}
    /\ \E s \in inflight : s.stage = "http"
    /\ Len(_logQueue) = MaxBurst - BATCH_SIZE + 1
    /\ Len(returns) = MaxBurst + 1 /\ returns[Len(returns)]

\* C31: in every state at most one timer can still fire, and _batchTimeout
\* holds the handle of that timer when there is one and is null when there
\* is none.
OneTimerRemembered ==
    /\ Cardinality(timers) <= 1
    /\ (_batchTimeout # 0) <=> (timers # {})
    /\ _batchTimeout # 0 => _batchTimeout \in timers

\* after a flush() that found the queue empty, 60 entries were accepted and
\* every setImmediate callback issued for them has run _processBatch, which
\* returned early and reset _batchTimeout
EarlyReturnWitness ==
    /\ _shutdown /\ flushPc = "done" /\ atFlush = <<>>
    /\ Len(_logQueue) = MaxBurst
    /\ immediates = 0
    /\ timers = {} /\ _batchTimeout = 0

\* C32: _sendBatch returns normally for every answer of the transport (any
\* status, a 429 body that does not parse, null, a rejection) as it does when
\* it returns at once on a disabled dispatcher or an invalid configuration:
\* the call then waits for _processBatch to resume, which resets
\* _processing; _processing is set only while a _sendBatch call is pending
\* or has returned; and _processing, once set, is reset at a later time.
FlagAlwaysReleased ==
    /\ [][/\ \A s \in inflight, r \in Responses :
                 SendComplete(s, r) =>
                     /\ [s EXCEPT !.stage = "resume", !.answer = r] \in inflight'
                     /\ _processing'
          /\ \A s \in inflight : ProcessBatchResume(s) => ~_processing'
          /\ _processing' => inflight' # {}]_vars
    /\ _processing ~> ~_processing

\* the only request was answered 401 and _processing has been reset
FlagReleasedWitness ==
    /\ got401 /\ disabledPermanently
    /\ requests = <<<<1>>>>
    /\ ~_processing /\ inflight = {}
    /\ ~_shutdown

\* C33, for the first entry when it was accepted after a flush() that found
\* the queue empty and returned: the entry is eventually out of the queue.
AcceptedAfterFlushIsExtracted ==
    (flushPc = "done" /\ atFlush = <<>> /\ 1 \in Range(_logQueue)) ~>
        (1 \notin Range(_logQueue))

====
